---- MODULE Spec2Model ----
(***************************************************************************)
(* A model of fitness.py: a single-user fitness and nutrition tracker that *)
(* keeps five SQLite tables (profile, goals, workouts, meals,              *)
(* plan_workouts) and is driven by one command per process invocation.     *)
(*                                                                         *)
(* Representation.                                                         *)
(*   - An Optional value is a sequence: <<>> is None, <<v>> is the value.  *)
(*   - A Python date object is its proleptic Gregorian ordinal (an         *)
(*     integer), which is what date arithmetic and weekday() work on.      *)
(*   - An ISO date string "YYYY-MM-DD" is the triple <<Y, M, D>>; the      *)
(*     string order SQLite uses in BETWEEN is the lexicographic order of   *)
(*     the zero-padded fields, IsoLeq below.                               *)
(*   - A table is the sequence of its rows in rowid order.                 *)
(*   - A timestamp (now_iso) is a counter of clock ticks.                  *)
(***************************************************************************)
EXTENDS Integers, Sequences, FiniteSets, TLC

VARIABLES
    schema,   \* TRUE once the tables exist in the database file
    db,       \* the committed contents of the five tables
    conn,     \* the connection's view inside an open transaction
    pc,       \* position of the running seed_defaults ("idle" when none runs)
    today,    \* date.today(), an ordinal
    now,      \* the clock behind now_iso()
    cmd,      \* the last invocation: <<command>>, <<"init", name>>, or
              \* <<"add-meal", calories, protein, carbs, fat>>
    exit,     \* its exit status
    out       \* what it printed (the values, not the layout)

vars == <<schema, db, conn, pc, today, now, cmd, exit, out>>

None == <<>>
Some(v) == <<v>>

----------------------------------------------------------------------------
(* Bounds of the model *)

MaxNow == 1          \* clock ticks (days) over the whole command surface
MaxRows == 1         \* rows a log table may hold in the command surface
MaxGoalNow == 2      \* clock ticks in the goal specification
MaxSeedNow == 4      \* clock ticks in the seeding specification
MaxWeeksAhead == 11  \* weeks between start date and target in plan-week checks
MaxLogRows == 2      \* workout rows in the week-window checks
MaxLogged == 2       \* rows a log table may hold in the logging specification

----------------------------------------------------------------------------
(* The calendar: datetime.date as CPython computes it *)

\* the years the model's dates are drawn from (datetime allows 1..9999)
Years == 2023..2025

IsLeap(y) == y % 4 = 0 /\ (y % 100 # 0 \/ y % 400 = 0)

DaysInMonth(y, m) ==
    IF m = 2 THEN (IF IsLeap(y) THEN 29 ELSE 28)
    ELSE IF m \in {4, 6, 9, 11} THEN 30 ELSE 31

DaysBeforeYear(y) ==
    (y - 1) * 365 + ((y - 1) \div 4) - ((y - 1) \div 100) + ((y - 1) \div 400)

RECURSIVE DaysBeforeMonth(_, _)
DaysBeforeMonth(y, m) ==
    IF m <= 1 THEN 0 ELSE DaysBeforeMonth(y, m - 1) + DaysInMonth(y, m - 1)

\* strptime(value, "%Y-%m-%d") succeeds exactly on a real calendar date
IsValidDate(t) ==
    /\ t[1] \in Years
    /\ t[2] \in 1..12
    /\ t[3] \in 1..DaysInMonth(t[1], t[2])

\* date.fromisoformat(s) followed by toordinal()
fromisoformat(t) == DaysBeforeYear(t[1]) + DaysBeforeMonth(t[1], t[2]) + t[3]

\* date.isoformat()
isoformat(n) ==
    LET y == CHOOSE yy \in Years :
                 DaysBeforeYear(yy) < n /\ n <= DaysBeforeYear(yy + 1)
        r == n - DaysBeforeYear(y)
        m == CHOOSE mm \in 1..12 :
                 /\ DaysBeforeMonth(y, mm) < r
                 /\ r <= DaysBeforeMonth(y, mm) + DaysInMonth(y, mm)
    IN  <<y, m, r - DaysBeforeMonth(y, m)>>

\* date.weekday(): Monday is 0
weekday(n) == (n + 6) % 7

\* date.isoweekday(): Monday is 1, Sunday is 7
isoweekday(n) == IF n % 7 = 0 THEN 7 ELSE n % 7

\* the order of two ISO date strings as text
IsoLeq(a, b) ==
    \/ a[1] < b[1]
    \/ a[1] = b[1] /\ a[2] < b[2]
    \/ a[1] = b[1] /\ a[2] = b[2] /\ a[3] <= b[3]

iso_today == isoformat(today)

now_iso == now

iso_week_start(d) == d - weekday(d)

get_week_number_since(start_date, target_date) ==
    ((iso_week_start(target_date) - iso_week_start(start_date)) \div 7) + 1

----------------------------------------------------------------------------
(* The store *)

EmptyDb ==
    [profile |-> <<>>, goals |-> <<>>, workouts |-> <<>>, meals |-> <<>>,
     plan_workouts |-> <<>>]

DetailsA == "Full-body: Squat 3x8, Push-up 3xAMRAP, Row 3x10, Plank 3x30s"
DetailsB == "Full-body: Hinge 3x8, Overhead Press 3x8, Lat Pull 3x10, Side Plank 3x30s"
DetailsC == "Full-body: Lunge 3x8/leg, Bench 3x8, Row 3x10, Deadbug 3x10/side"

PlanRow(w, d, n, t) == [week |-> w, dow |-> d, name |-> n, details |-> t]

DEFAULT_PLAN ==
    << PlanRow(1, 1, "Workout A", DetailsA), PlanRow(2, 1, "Workout A", DetailsA),
       PlanRow(3, 1, "Workout A", DetailsA), PlanRow(4, 1, "Workout A", DetailsA),
       PlanRow(1, 3, "Workout B", DetailsB), PlanRow(2, 3, "Workout B", DetailsB),
       PlanRow(3, 3, "Workout B", DetailsB), PlanRow(4, 3, "Workout B", DetailsB),
       PlanRow(1, 5, "Workout C", DetailsC), PlanRow(2, 5, "Workout C", DetailsC),
       PlanRow(3, 5, "Workout C", DetailsC), PlanRow(4, 5, "Workout C", DetailsC) >>

DEFAULT_GOALS ==
    << <<"daily_calories", 1800, "kcal">>,
       <<"daily_protein_g", 120, "g">>,
       <<"weekly_exercise_minutes", 150, "min">>,
       <<"daily_walk_minutes", 30, "min">> >>

GoalRow(k, v, u, t) == [key |-> k, value |-> v, unit |-> u, updated_at |-> t]

HasGoal(goals, k) == \E j \in 1..Len(goals) : goals[j].key = k

----------------------------------------------------------------------------
(* seed_defaults, statement by statement *)

\* a seed that replaces the profile row on every run (INSERT OR REPLACE)
seed_profile_overwrite(d, name, day) ==
    [d EXCEPT !.profile =
        <<[id |-> 1,
           name |-> (IF name = None \/ name = Some("") THEN "You" ELSE name[1]),
           start_date |-> isoformat(day)]>>]

\* lines 181-187: SELECT 1 FROM profile WHERE id=1, INSERT when absent
seed_profile(d, name, day) ==
    IF \E j \in 1..Len(d.profile) : d.profile[j].id = 1
    THEN d
    ELSE [d EXCEPT !.profile =
            Append(@, [id |-> 1,
                       name |-> (IF name = None \/ name = Some("") THEN "You" ELSE name[1]),
                       start_date |-> isoformat(day)])]

\* one row of the executemany of lines 191-194
plan_insert(d, row) == [d EXCEPT !.plan_workouts = Append(@, row)]

RECURSIVE plan_insert_from(_, _)
plan_insert_from(d, j) ==
    IF j > Len(DEFAULT_PLAN) THEN d
    ELSE plan_insert_from(plan_insert(d, DEFAULT_PLAN[j]), j + 1)

\* a seed that inserts the plan without looking at the table first
seed_plan_always(d) == plan_insert_from(d, 1)

\* lines 189-194: SELECT COUNT(*), executemany when the table is empty
seed_plan(d) ==
    IF Len(d.plan_workouts) = 0 THEN plan_insert_from(d, 1) ELSE d

\* a seed that resets a default goal it finds (INSERT OR REPLACE)
insert_or_replace_goal(d, g, t) ==
    IF HasGoal(d.goals, g[1])
    THEN [d EXCEPT !.goals =
            [j \in 1..Len(@) |->
                IF @[j].key = g[1] THEN GoalRow(g[1], g[2], g[3], t) ELSE @[j]]]
    ELSE [d EXCEPT !.goals = Append(@, GoalRow(g[1], g[2], g[3], t))]

\* lines 197-200: INSERT OR IGNORE against the UNIQUE key column
insert_or_ignore_goal(d, g, t) ==
    IF HasGoal(d.goals, g[1])
    THEN d
    ELSE [d EXCEPT !.goals = Append(@, GoalRow(g[1], g[2], g[3], t))]

RECURSIVE seed_goals_from(_, _, _)
seed_goals_from(d, j, t) ==
    IF j > Len(DEFAULT_GOALS) THEN d
    ELSE seed_goals_from(insert_or_ignore_goal(d, DEFAULT_GOALS[j], t), j + 1, t)

\* lines 196-200
seed_goals(d, t) == seed_goals_from(d, 1, t)

\* lines 178-202, the whole function inside its one transaction
seed_defaults(d, name, day, t) ==
    seed_goals(seed_plan(seed_profile(d, name, day)), t)

----------------------------------------------------------------------------
(* Record store *)

\* COALESCE(x, dflt)
Coalesce(x, dflt) == IF x = None THEN dflt ELSE x[1]

\* an upsert that stores the empty unit whenever none is given
set_goal_drops_unit(d, key, value, unit, t) ==
    LET u == IF unit = None THEN "" ELSE unit[1]
    IN  IF HasGoal(d.goals, key)
        THEN [d EXCEPT !.goals =
                [j \in 1..Len(@) |->
                    IF @[j].key = key THEN GoalRow(key, value, u, t) ELSE @[j]]]
        ELSE [d EXCEPT !.goals = Append(@, GoalRow(key, value, u, t))]

\* lines 210-220: read the stored unit when none is given, then upsert by key
set_goal(d, key, value, unit, t) ==
    LET u == IF unit = None
             THEN (IF HasGoal(d.goals, key)
                   THEN d.goals[CHOOSE j \in 1..Len(d.goals) : d.goals[j].key = key].unit
                   ELSE "")
             ELSE unit[1]
    IN  IF HasGoal(d.goals, key)
        THEN [d EXCEPT !.goals =
                [j \in 1..Len(@) |->
                    IF @[j].key = key THEN GoalRow(key, value, u, t) ELSE @[j]]]
        ELSE [d EXCEPT !.goals = Append(@, GoalRow(key, value, u, t))]

\* an insert that replaces the log instead of extending it
add_workout_replaces(d, date_str, workout_type, duration_min, notes, t) ==
    [d EXCEPT !.workouts =
        <<[date |-> date_str, type |-> workout_type,
           duration_min |-> duration_min, distance_km |-> None,
           sets |-> None, reps |-> None, weight_kg |-> None,
           notes |-> notes, created_at |-> t]>>]

\* lines 223-252
add_workout(d, date_str, workout_type, duration_min, notes, t) ==
    [d EXCEPT !.workouts =
        Append(@, [date |-> date_str, type |-> workout_type,
                   duration_min |-> duration_min, distance_km |-> None,
                   sets |-> None, reps |-> None, weight_kg |-> None,
                   notes |-> notes, created_at |-> t])]

\* an estimate that counts a missing macro as zero
meal_calories_partial(calories, protein_g, carbs_g, fat_g) ==
    IF calories = None /\ {protein_g, carbs_g, fat_g} # {None}
    THEN Some(4 * Coalesce(protein_g, 0) + 4 * Coalesce(carbs_g, 0)
              + 9 * Coalesce(fat_g, 0))
    ELSE calories

\* lines 265-267: the estimate from the macros
meal_calories(calories, protein_g, carbs_g, fat_g) ==
    IF calories = None /\ None \notin {protein_g, carbs_g, fat_g}
    THEN Some(4 * protein_g[1] + 4 * carbs_g[1] + 9 * fat_g[1])
    ELSE calories

\* lines 255-285
add_meal(d, date_str, meal_type, calories, protein_g, carbs_g, fat_g, t) ==
    [d EXCEPT !.meals =
        Append(@, [date |-> date_str, meal_type |-> meal_type,
                   calories |-> meal_calories(calories, protein_g, carbs_g, fat_g),
                   protein_g |-> protein_g, carbs_g |-> carbs_g, fat_g |-> fat_g,
                   items |-> None, created_at |-> t])]

\* lines 288-294
get_goal(d, key) ==
    IF HasGoal(d.goals, key)
    THEN LET g == d.goals[CHOOSE j \in 1..Len(d.goals) : d.goals[j].key = key]
         IN  <<g.value, g.unit>>
    ELSE <<0, "">>

\* lines 297-303
get_profile(d) ==
    IF \E j \in 1..Len(d.profile) : d.profile[j].id = 1
    THEN LET r == d.profile[CHOOSE j \in 1..Len(d.profile) : d.profile[j].id = 1]
         IN  [name |-> r.name, start_date |-> r.start_date]
    ELSE [name |-> "You", start_date |-> iso_today]

----------------------------------------------------------------------------
(* Aggregator *)

\* SQL SUM over a column: NULLs are skipped, no non-NULL value gives NULL
RECURSIVE SqlSum(_)
SqlSum(vals) ==
    IF vals = <<>> THEN None
    ELSE LET rest == SqlSum(Tail(vals))
         IN  IF Head(vals) = None THEN rest
             ELSE IF rest = None THEN Head(vals)
             ELSE Some(Head(vals)[1] + rest[1])

\* date BETWEEN lo AND hi, on the stored text
Between(x, lo, hi) == IsoLeq(lo, x) /\ IsoLeq(x, hi)

RECURSIVE SelectRows(_, _, _)
\* the rows whose date lies in [lo, hi], in rowid order
SelectRows(rows, lo, hi) ==
    IF rows = <<>> THEN <<>>
    ELSE IF Between(Head(rows).date, lo, hi)
         THEN <<Head(rows)>> \o SelectRows(Tail(rows), lo, hi)
         ELSE SelectRows(Tail(rows), lo, hi)

\* a window that runs on to the following Monday
week_end_next_monday(start) == start + 7

\* the upper end of the week window, lines 320 and 443
week_end(start) == start + 6

\* lines 306-329
sum_today(d, today_str) ==
    LET mealsToday == SelectRows(d.meals, today_str, today_str)
        workToday == SelectRows(d.workouts, today_str, today_str)
        start == iso_week_start(fromisoformat(today_str))
        workWeek == SelectRows(d.workouts, isoformat(start), isoformat(week_end(start)))
    IN  [calories |-> Coalesce(SqlSum([j \in 1..Len(mealsToday) |-> mealsToday[j].calories]), 0),
         protein |-> Coalesce(SqlSum([j \in 1..Len(mealsToday) |-> mealsToday[j].protein_g]), 0),
         exercise_min |->
             Coalesce(SqlSum([j \in 1..Len(workToday) |-> workToday[j].duration_min]), 0),
         week_exercise_min |->
             Coalesce(SqlSum([j \in 1..Len(workWeek) |-> workWeek[j].duration_min]), 0)]

\* lines 441-459, the three weekly totals of cmd_week
week_totals(d, today_dt) ==
    LET start == iso_week_start(today_dt)
        end == week_end(start)
        w == SelectRows(d.workouts, isoformat(start), isoformat(end))
        m == SelectRows(d.meals, isoformat(start), isoformat(end))
    IN  [start |-> isoformat(start), end |-> isoformat(end),
         week_minutes |-> Coalesce(SqlSum([j \in 1..Len(w) |-> w[j].duration_min]), 0),
         week_calories |-> Coalesce(SqlSum([j \in 1..Len(m) |-> m[j].calories]), 0),
         week_protein |-> Coalesce(SqlSum([j \in 1..Len(m) |-> m[j].protein_g]), 0)]

\* a plan week that is not capped to the four seeded weeks
plan_week_unclamped(d, today_date) ==
    get_week_number_since(fromisoformat(get_profile(d).start_date), today_date)

\* lines 333-336: the plan week looked up
plan_week(d, today_date) ==
    LET profile == get_profile(d)
        start == fromisoformat(profile.start_date)
        week_number == get_week_number_since(start, today_date)
    IN  IF week_number > 4 THEN 4 ELSE IF week_number < 1 THEN 1 ELSE week_number

\* lines 332-347: the first matching plan row, None when there is none
get_today_plan(d, today_date) ==
    LET wk == plan_week(d, today_date)
        dow == isoweekday(today_date)
        hits == SelectSeq(d.plan_workouts, LAMBDA r : r.week = wk /\ r.dow = dow)
    IN  IF hits = <<>> THEN None
        ELSE Some([name |-> hits[1].name, details |-> hits[1].details])

\* line 473: ORDER BY week, dow (ties in rowid order)
RECURSIVE plan_ordered(_, _)
plan_ordered(rows, k) ==
    IF k > 27 THEN <<>>
    ELSE SelectSeq(rows, LAMBDA r : r.week = (k \div 7) + 1 /\ r.dow = (k % 7) + 1)
         \o plan_ordered(rows, k + 1)

----------------------------------------------------------------------------
(* CLI commands: one process invocation each *)

Idle == [at |-> "idle", name |-> None, j |-> 0]

\* lines 118-123: whether parse_date returns (it exits with status 1 otherwise)
date_ok(value) == value = None \/ IsValidDate(value[1])

\* lines 117-125: None stands for sys.exit(1)
parse_date(value) ==
    IF value = None THEN Some(iso_today)
    ELSE IF IsValidDate(value[1]) THEN Some(value[1])
    ELSE None

\* lines 355-360
cmd_init(name) ==
    /\ pc = Idle
    /\ schema' = TRUE
    /\ db' = seed_defaults(db, name, today, now_iso)
    /\ cmd' = <<"init", name>>
    /\ exit' = 0
    /\ out' = get_profile(db')
    /\ UNCHANGED <<conn, pc, today, now>>

\* lines 363-368
cmd_set_goal(key, value, unit) ==
    /\ pc = Idle
    /\ schema' = TRUE
    /\ db' = set_goal(db, key, value, unit, now_iso)
    /\ cmd' = <<"set-goal">>
    /\ exit' = 0
    /\ out' = get_goal(db', key)
    /\ UNCHANGED <<conn, pc, today, now>>

\* lines 371-385: the schema is ensured before the date is parsed
\* (limit caps the rows the model lets the table hold)
run_add_workout(dateArg, workout_type, duration, notes, limit) ==
    LET date_str == parse_date(dateArg)
    IN  /\ pc = Idle
        /\ date_ok(dateArg) => Len(db.workouts) < limit
        /\ schema' = TRUE
        /\ cmd' = <<"add-workout">>
        /\ IF date_str = None
           THEN /\ exit' = 1
                /\ out' = "Invalid date format. Use YYYY-MM-DD."
                /\ db' = db
           ELSE /\ exit' = 0
                /\ out' = "Workout logged."
                /\ db' = add_workout(db, date_str[1], workout_type, duration, notes,
                                     now_iso)
        /\ UNCHANGED <<conn, pc, today, now>>

cmd_add_workout(dateArg, workout_type, duration, notes) ==
    run_add_workout(dateArg, workout_type, duration, notes, MaxRows)

\* lines 388-401 (limit caps the rows the model lets the table hold)
run_add_meal(dateArg, meal_type, calories, protein, carbs, fat, limit) ==
    LET date_str == parse_date(dateArg)
    IN  /\ pc = Idle
        /\ date_ok(dateArg) => Len(db.meals) < limit
        /\ schema' = TRUE
        /\ cmd' = <<"add-meal", calories, protein, carbs, fat>>
        /\ IF date_str = None
           THEN /\ exit' = 1
                /\ out' = "Invalid date format. Use YYYY-MM-DD."
                /\ db' = db
           ELSE /\ exit' = 0
                /\ out' = "Meal logged."
                /\ db' = add_meal(db, date_str[1], meal_type, calories, protein, carbs,
                                  fat, now_iso)
        /\ UNCHANGED <<conn, pc, today, now>>

cmd_add_meal(dateArg, meal_type, calories, protein, carbs, fat) ==
    run_add_meal(dateArg, meal_type, calories, protein, carbs, fat, MaxRows)

\* lines 404-434
cmd_today ==
    /\ pc = Idle
    /\ schema' = TRUE
    /\ cmd' = <<"today">>
    /\ exit' = 0
    /\ out' = [owner |-> get_profile(db).name,
               plan |-> get_today_plan(db, today),
               totals |-> sum_today(db, iso_today),
               goals |-> <<get_goal(db, "daily_calories"), get_goal(db, "daily_protein_g"),
                           get_goal(db, "daily_walk_minutes"),
                           get_goal(db, "weekly_exercise_minutes")>>]
    /\ UNCHANGED <<db, conn, pc, today, now>>

\* lines 437-465
cmd_week ==
    /\ pc = Idle
    /\ schema' = TRUE
    /\ cmd' = <<"week">>
    /\ exit' = 0
    /\ out' = [totals |-> week_totals(db, today),
               goal |-> get_goal(db, "weekly_exercise_minutes")]
    /\ UNCHANGED <<db, conn, pc, today, now>>

\* lines 468-484
cmd_plan ==
    /\ pc = Idle
    /\ schema' = TRUE
    /\ cmd' = <<"plan">>
    /\ exit' = 0
    /\ out' = plan_ordered(db.plan_workouts, 0)
    /\ UNCHANGED <<db, conn, pc, today, now>>

\* lines 487-514: the rows printed, in rowid order (the CSV quoting is layout)
cmd_export(table) ==
    /\ pc = Idle
    /\ schema' = TRUE
    /\ cmd' = <<"export">>
    /\ IF table \notin {"workouts", "meals", "goals"}
       THEN /\ exit' = 1
            /\ out' = "Invalid table. Choose from: workouts, meals, goals"
       ELSE /\ exit' = 0
            /\ out' = db[table]
    /\ UNCHANGED <<db, conn, pc, today, now>>

\* time passes between two invocations: the clock ticks, and the day may change
Tick(days, limit) ==
    /\ pc = Idle
    /\ now < limit
    /\ now' = now + 1
    /\ today' = today + days
    /\ UNCHANGED <<schema, db, conn, pc, cmd, exit, out>>

----------------------------------------------------------------------------
(* The command surface, from a machine on which the program never ran *)

\* Sunday 2023-12-31: the next day starts a new week and a new year
Day0 == fromisoformat(<<2023, 12, 31>>)

Names == {None, Some("Ann")}
\* no --date, and a date strptime rejects
DateArgs == {None, Some(<<2024, 2, 30>>)}

Init ==
    /\ schema = FALSE
    /\ db = EmptyDb
    /\ conn = EmptyDb
    /\ pc = Idle
    /\ today = Day0
    /\ now = 0
    /\ cmd = <<"none">>
    /\ exit = 0
    /\ out = None

Next ==
    \/ \E name \in Names : cmd_init(name)
    \/ cmd_set_goal("k", 10, None)
    \/ \E dateArg \in DateArgs : cmd_add_workout(dateArg, "run", Some(30), None)
    \/ \E dateArg \in DateArgs, calories \in {None, Some(500)} :
           cmd_add_meal(dateArg, "lunch", calories, Some(10), Some(20), Some(5))
    \/ cmd_today
    \/ cmd_week
    \/ cmd_plan
    \/ \E table \in {"workouts", "meals", "goals", "profile"} : cmd_export(table)
    \/ Tick(1, MaxNow)

Spec == Init /\ [][Next]_vars

\* C2: in every state the command surface reaches, the profile table holds at
\* most one row, and once a row exists no later command (a re-run of init with
\* another name or on a later day included) changes its name or start_date.
C2_ProfileFixed ==
    [][/\ Len(db'.profile) <= 1
       /\ Len(db.profile) >= 1 =>
             /\ Len(db'.profile) = 1
             /\ db'.profile[1].name = db.profile[1].name
             /\ db'.profile[1].start_date = db.profile[1].start_date]_vars

\* init was re-run as "Ann" on a later day than the one the profile "You" started
C2_Witness ==
    /\ cmd = <<"init", Some("Ann")>>
    /\ Len(db.profile) = 1
    /\ db.profile[1].name = "You"
    /\ db.profile[1].start_date # iso_today

\* C8: a command that ends in an input validation error (exit status not 0)
\* leaves the persisted store, schema and rows, exactly as it found it.
C8_ValidationLeavesStore ==
    [][exit' # 0 => (schema' = schema /\ db' = db)]_vars

----------------------------------------------------------------------------
(* Goals: init and set-goal alone, over a wider range of inputs *)

GoalKeys == {"daily_calories", "k"}
GoalValues == {-5, 10, 20}
GoalUnits == {None, Some("u")}

NextGoals ==
    \/ cmd_init(None)
    \/ \E key \in GoalKeys, value \in GoalValues, unit \in GoalUnits :
           cmd_set_goal(key, value, unit)
    \/ Tick(1, MaxGoalNow)

SpecGoals == Init /\ [][NextGoals]_vars

DefaultKeys == {DEFAULT_GOALS[j][1] : j \in 1..Len(DEFAULT_GOALS)}

RowsWithKey(goals, key) == {j \in 1..Len(goals) : goals[j].key = key}

\* C3: set_goal(key, value, unit) leaves exactly one row for key, holding the
\* new value; its unit is the given one, or, when none is given, the unit stored
\* before (the empty string if the key was new). Keys stay unique after every
\* set_goal and every seed_defaults.
C3_SetGoalUpsert ==
    [][/\ \A key \in GoalKeys, value \in GoalValues, unit \in GoalUnits :
             cmd_set_goal(key, value, unit) =>
                 /\ Cardinality(RowsWithKey(db'.goals, key)) = 1
                 /\ \A j \in RowsWithKey(db'.goals, key) :
                       /\ db'.goals[j].value = value
                       /\ unit # None => db'.goals[j].unit = unit[1]
                       /\ unit = None /\ RowsWithKey(db.goals, key) = {} =>
                             db'.goals[j].unit = ""
                       /\ unit = None =>
                             \A i \in RowsWithKey(db.goals, key) :
                                 db'.goals[j].unit = db.goals[i].unit
       /\ \A i, j \in 1..Len(db'.goals) :
             db'.goals[i].key = db'.goals[j].key => i = j]_vars

\* set_goal("k", 10, "u") and then set_goal("k", 20, None): k = 20, unit "u"
C3_Witness ==
    /\ cmd = <<"set-goal">>
    /\ out = <<20, "u">>
    /\ \E j \in 1..Len(db.goals) :
          db.goals[j].key = "k" /\ db.goals[j].value = 20 /\ db.goals[j].unit = "u"

\* C4: seed_defaults leaves every goal row it finds as it is (value, unit and
\* updated_at), and adds one row for each default key that was absent, and
\* nothing else, whether or not the profile and the plan exist.
C4_SeedKeepsGoals ==
    [][cmd_init(None) =>
          /\ Len(db'.goals) = Len(db.goals)
                + Cardinality({k \in DefaultKeys : ~HasGoal(db.goals, k)})
          /\ \A j \in 1..Len(db.goals) : db'.goals[j] = db.goals[j]
          /\ \A k \in DefaultKeys : Cardinality(RowsWithKey(db'.goals, k)) = 1
          /\ \A j \in (Len(db.goals) + 1)..Len(db'.goals) :
                /\ db'.goals[j].key \in DefaultKeys
                /\ ~HasGoal(db.goals, db'.goals[j].key)]_vars

\* init ran after the user had set daily_calories to 10 "u": the row is as the
\* user left it, older than the defaults seeded beside it
C4_Witness ==
    /\ cmd = <<"init", None>>
    /\ \E i, j \in 1..Len(db.goals) :
          /\ db.goals[i].key = "daily_calories"
          /\ db.goals[i].value = 10
          /\ db.goals[i].unit = "u"
          /\ db.goals[j].key = "daily_protein_g"
          /\ db.goals[i].updated_at < db.goals[j].updated_at

\* C9: every stored goal value is non-negative.
C9_GoalValuesNonNegative ==
    \A j \in 1..Len(db.goals) : db.goals[j].value >= 0

----------------------------------------------------------------------------
(* Seeding alone, from a store that holds the schema and no rows *)

SeedNames == {None, Some("Ann"), Some("Bob")}

InitSeed ==
    /\ schema = TRUE
    /\ db = EmptyDb
    /\ conn = EmptyDb
    /\ pc = Idle
    /\ today = Day0
    /\ now = 0
    /\ cmd = <<"none">>
    /\ exit = 0
    /\ out = None

NextSeed ==
    \/ \E name \in SeedNames : cmd_init(name)
    \/ \E days \in {0, 1} : Tick(days, MaxSeedNow)

SpecSeed == InitSeed /\ [][NextSeed]_vars

\* one profile row, the 12 plan rows (weeks 1-4 x days 1, 3, 5) once each, the
\* four default goals once each, and nothing else
ExactlySeeded(d) ==
    /\ Len(d.profile) = 1
    /\ Len(d.plan_workouts) = 12
    /\ \A w \in 1..4, dw \in {1, 3, 5} :
          Cardinality({j \in 1..Len(d.plan_workouts) :
                          d.plan_workouts[j].week = w /\ d.plan_workouts[j].dow = dw}) = 1
    /\ Len(d.goals) = 4
    /\ \A k \in {"daily_calories", "daily_protein_g", "weekly_exercise_minutes",
                  "daily_walk_minutes"} :
          Cardinality(RowsWithKey(d.goals, k)) = 1
    /\ d.workouts = <<>>
    /\ d.meals = <<>>

\* C1: from a schema-only store, after one or more seed_defaults calls the store
\* holds exactly one profile row, the 12 plan rows and each default goal once;
\* the second and every later call leaves the store as the first left it.
C1_SeedIdempotent ==
    [][cmd'[1] = "init" =>
          /\ ExactlySeeded(db')
          /\ cmd[1] = "init" => db' = db]_vars

\* seeded as "Ann", then seeded again as "Bob" on a later day
C1_Witness ==
    /\ cmd = <<"init", Some("Bob")>>
    /\ ExactlySeeded(db)
    /\ db.profile[1].name = "Ann"
    /\ db.profile[1].start_date # iso_today

----------------------------------------------------------------------------
(* add-meal alone, over every combination of given and omitted numbers *)

MealDates == {None, Some(<<2024, 1, 1>>)}
MealCalories == {None, Some(0), Some(500)}
MealProtein == {None, Some(0), Some(10)}
MealCarbs == {None, Some(0), Some(20)}
MealFat == {None, Some(0), Some(5)}

NextMeal ==
    \E dateArg \in MealDates, calories \in MealCalories, protein \in MealProtein,
       carbs \in MealCarbs, fat \in MealFat :
        cmd_add_meal(dateArg, "lunch", calories, protein, carbs, fat)

SpecMeal == Init /\ [][NextMeal]_vars

\* C5: the row add_meal stores holds the given calories when calories is given;
\* 4*protein + 4*carbs + 9*fat when calories is omitted and the three macros are
\* all given (zeros included); and no calories (null) when calories is omitted
\* and some macro is missing.
C5_CalorieDerivation ==
    cmd[1] = "add-meal" /\ exit = 0 =>
        LET calories == cmd[2]
            protein == cmd[3]
            carbs == cmd[4]
            fat == cmd[5]
            stored == db.meals[Len(db.meals)].calories
        IN  /\ Len(db.meals) >= 1
            /\ calories # <<>> => stored = calories
            /\ calories = <<>> /\ protein # <<>> /\ carbs # <<>> /\ fat # <<>>
                  => stored = <<4 * protein[1] + 4 * carbs[1] + 9 * fat[1]>>
            /\ calories = <<>> /\ (protein = <<>> \/ carbs = <<>> \/ fat = <<>>)
                  => stored = <<>>

\* add_meal(calories=None, protein=10, carbs=None, fat=5) stored no calories
C5_Witness ==
    /\ cmd = <<"add-meal", None, Some(10), None, Some(5)>>
    /\ exit = 0
    /\ \E j \in 1..Len(db.meals) :
          /\ db.meals[j].protein_g = Some(10)
          /\ db.meals[j].carbs_g = None
          /\ db.meals[j].fat_g = Some(5)
          /\ db.meals[j].calories = None

----------------------------------------------------------------------------
(* get_today_plan alone, over start dates and target dates *)

\* the profile may have started on any day of the week of Monday 2024-01-01
StartDays == fromisoformat(<<2024, 1, 1>>)..fromisoformat(<<2024, 1, 7>>)

\* a call of get_today_plan(conn, today), with the week it resolved
call_get_today_plan ==
    /\ pc = Idle
    /\ cmd' = <<"get_today_plan">>
    /\ exit' = 0
    /\ out' = [week_number |-> plan_week(db, today),
               plan |-> get_today_plan(db, today)]
    /\ UNCHANGED <<schema, db, conn, pc, today, now>>

InitPlanWeek ==
    /\ schema = TRUE
    /\ \E start \in StartDays :
          /\ db = seed_defaults(EmptyDb, None, start, 0)
          /\ today \in (start - 14)..(start + 7 * MaxWeeksAhead)
    /\ conn = EmptyDb
    /\ pc = Idle
    /\ now = 0
    /\ cmd = <<"none">>
    /\ exit = 0
    /\ out = None

NextPlanWeek == call_get_today_plan

SpecPlanWeek == InitPlanWeek /\ [][NextPlanWeek]_vars

\* 2024-01-01 was a Monday
IsMonday(n) == (n - fromisoformat(<<2024, 1, 1>>)) % 7 = 0

\* the most recent Monday on or before n
MondayOnOrBefore(n) == CHOOSE m \in (n - 6)..n : IsMonday(m)

\* floor(x / 7) for the differences that occur
FloorWeeks(x) == CHOOSE q \in -4..(MaxWeeksAhead + 2) : 7 * q <= x /\ x < 7 * q + 7

\* C6: the week get_today_plan uses is
\* floor((week_start(target) - week_start(start_date)) / 7 days) + 1 clamped to
\* 1..4: always within 1..4, week 4 ten weeks after the start, week 1 within the
\* start date's own Monday-Sunday week, and week 1 before the start week.
C6_PlanWeekClamped ==
    cmd = <<"get_today_plan">> =>
        LET start == fromisoformat(db.profile[1].start_date)
            raw == FloorWeeks(MondayOnOrBefore(today) - MondayOnOrBefore(start)) + 1
        IN  /\ out.week_number = (IF raw < 1 THEN 1 ELSE IF raw > 4 THEN 4 ELSE raw)
            /\ out.week_number \in 1..4
            /\ today = start + 70 => out.week_number = 4
            /\ MondayOnOrBefore(start) <= today /\ today <= MondayOnOrBefore(start) + 6
                  => out.week_number = 1
            /\ today < MondayOnOrBefore(start) => out.week_number = 1

\* the plan looked up exactly ten weeks after the start date
C6_Witness ==
    /\ cmd = <<"get_today_plan">>
    /\ today = fromisoformat(db.profile[1].start_date) + 70
    /\ out.week_number = 4

----------------------------------------------------------------------------
(* The weekly totals alone, over logs dated around the week of 2024-01-01 *)

\* Monday, Thursday and Sunday of one week, and the Monday after it
WindowDays ==
    {fromisoformat(<<2024, 1, 1>>), fromisoformat(<<2024, 1, 4>>),
     fromisoformat(<<2024, 1, 7>>), fromisoformat(<<2024, 1, 8>>)}

\* workouts logged on the Sunday before, the Monday, the Sunday and the Monday after
WorkoutKinds ==
    {add_workout(EmptyDb, d, "run", u, None, 0).workouts[1] :
        d \in {<<2023, 12, 31>>, <<2024, 1, 1>>, <<2024, 1, 7>>, <<2024, 1, 8>>},
        u \in {None, Some(30)}}

\* meals logged on the Sunday and on the Monday after, with or without calories
MealKinds ==
    {add_meal(EmptyDb, d, "lunch", x[1], x[2], None, None, 0).meals[1] :
        d \in {<<2024, 1, 7>>, <<2024, 1, 8>>},
        x \in {<<None, Some(10)>>, <<Some(500), None>>}}

\* the tables of at most n rows of the given kinds
LogsOf(kinds, n) == UNION {[1..k -> kinds] : k \in 0..n}

InitWeekWindow ==
    /\ schema = TRUE
    /\ \E w \in LogsOf(WorkoutKinds, MaxLogRows), m \in LogsOf(MealKinds, MaxLogRows - 1) :
          db = [EmptyDb EXCEPT !.workouts = w, !.meals = m]
    /\ today \in WindowDays
    /\ conn = EmptyDb
    /\ pc = Idle
    /\ now = 0
    /\ cmd = <<"none">>
    /\ exit = 0
    /\ out = None

NextWeekWindow ==
    \/ cmd_week
    \/ cmd_today

SpecWeekWindow == InitWeekWindow /\ [][NextWeekWindow]_vars

RECURSIVE Total(_)
Total(nums) == IF nums = <<>> THEN 0 ELSE Head(nums) + Total(Tail(nums))

\* whether a row's date lies in the Monday-Sunday week that holds day t
InWeekOf(t, row) ==
    /\ MondayOnOrBefore(t) <= fromisoformat(row.date)
    /\ fromisoformat(row.date) <= MondayOnOrBefore(t) + 6

\* C7: the weekly totals (workout minutes in sum_today and cmd_week, meal
\* calories and protein in cmd_week) are the sums over exactly the rows dated
\* from the most recent Monday on or before today to the Sunday six days later,
\* both included, an absent number counting as zero.
C7_WeekWindow ==
    LET minutes == Total([j \in 1..Len(db.workouts) |->
                            IF InWeekOf(today, db.workouts[j]) /\ db.workouts[j].duration_min # None
                            THEN db.workouts[j].duration_min[1] ELSE 0])
        calories == Total([j \in 1..Len(db.meals) |->
                             IF InWeekOf(today, db.meals[j]) /\ db.meals[j].calories # None
                             THEN db.meals[j].calories[1] ELSE 0])
        protein == Total([j \in 1..Len(db.meals) |->
                            IF InWeekOf(today, db.meals[j]) /\ db.meals[j].protein_g # None
                            THEN db.meals[j].protein_g[1] ELSE 0])
    IN  /\ cmd = <<"week">> =>
              /\ out.totals.week_minutes = minutes
              /\ out.totals.week_calories = calories
              /\ out.totals.week_protein = protein
        /\ cmd = <<"today">> => out.totals.week_exercise_min = minutes

\* on Thursday 2024-01-04, with 30 minutes logged on Sunday 2024-01-07 and 30 on
\* Monday 2024-01-08, the week's minutes are 30
C7_Witness ==
    /\ cmd = <<"week">>
    /\ today = fromisoformat(<<2024, 1, 4>>)
    /\ Len(db.workouts) = 2
    /\ db.workouts[1].date = <<2024, 1, 7>> /\ db.workouts[1].duration_min = Some(30)
    /\ db.workouts[2].date = <<2024, 1, 8>> /\ db.workouts[2].duration_min = Some(30)
    /\ out.totals.week_minutes = 30

----------------------------------------------------------------------------
(* init statement by statement, where the process may die at any point *)

\* a connection in autocommit mode: every statement reaches the file at once
persisted_autocommit(d, c) == c

\* what the file holds after a statement of an open transaction: the
\* connection is opened with the default isolation level, so the first INSERT
\* begins a transaction and nothing reaches the file before conn.commit()
persisted(d, c) == d

\* cmd_init up to the call of seed_defaults
begin_init(name) ==
    /\ pc = Idle
    /\ schema' = TRUE
    /\ conn' = db
    /\ pc' = [at |-> "profile", name |-> name, j |-> 0]
    /\ cmd' = <<"init", name>>
    /\ UNCHANGED <<db, today, now, exit, out>>

seed_step_profile ==
    /\ pc.at = "profile"
    /\ conn' = seed_profile(conn, pc.name, today)
    /\ db' = persisted(db, conn')
    /\ pc' = [pc EXCEPT !.at = "plan_count"]
    /\ UNCHANGED <<schema, today, now, cmd, exit, out>>

seed_step_plan_count ==
    /\ pc.at = "plan_count"
    /\ pc' = IF Len(conn.plan_workouts) = 0
             THEN [pc EXCEPT !.at = "plan_rows", !.j = 1]
             ELSE [pc EXCEPT !.at = "goals", !.j = 1]
    /\ UNCHANGED <<schema, db, conn, today, now, cmd, exit, out>>

seed_step_plan_row ==
    /\ pc.at = "plan_rows"
    /\ conn' = plan_insert(conn, DEFAULT_PLAN[pc.j])
    /\ db' = persisted(db, conn')
    /\ pc' = IF pc.j < Len(DEFAULT_PLAN)
             THEN [pc EXCEPT !.j = @ + 1]
             ELSE [pc EXCEPT !.at = "goals", !.j = 1]
    /\ UNCHANGED <<schema, today, now, cmd, exit, out>>

seed_step_goal ==
    /\ pc.at = "goals"
    /\ conn' = insert_or_ignore_goal(conn, DEFAULT_GOALS[pc.j], now_iso)
    /\ db' = persisted(db, conn')
    /\ pc' = IF pc.j < Len(DEFAULT_GOALS)
             THEN [pc EXCEPT !.j = @ + 1]
             ELSE [pc EXCEPT !.at = "commit", !.j = 0]
    /\ UNCHANGED <<schema, today, now, cmd, exit, out>>

\* conn.commit(), then the rest of cmd_init
seed_commit ==
    /\ pc.at = "commit"
    /\ db' = conn
    /\ conn' = EmptyDb
    /\ pc' = Idle
    /\ exit' = 0
    /\ out' = get_profile(db')
    /\ UNCHANGED <<schema, today, now, cmd>>

\* the process dies inside seed_defaults: the open transaction is rolled back,
\* and the position it died at is kept in out
crash ==
    /\ pc.at # "idle"
    /\ pc' = Idle
    /\ conn' = EmptyDb
    /\ exit' = 128 + 9
    /\ out' = pc
    /\ UNCHANGED <<schema, db, today, now, cmd>>

NextCrash ==
    \/ \E name \in Names : begin_init(name)
    \/ seed_step_profile
    \/ seed_step_plan_count
    \/ seed_step_plan_row
    \/ seed_step_goal
    \/ seed_commit
    \/ crash
    \/ \E key \in GoalKeys : cmd_set_goal(key, 10, None)
    \/ Tick(1, MaxNow)

SpecCrash == Init /\ [][NextCrash]_vars

\* one profile row, the 12 plan rows and the four default goals
FullySeeded(d) ==
    /\ Len(d.profile) = 1
    /\ Len(d.plan_workouts) = 12
    /\ \A k \in {"daily_calories", "daily_protein_g", "weekly_exercise_minutes",
                  "daily_walk_minutes"} :
          Cardinality(RowsWithKey(d.goals, k)) = 1

\* C10: wherever the process dies inside seed_defaults, the persisted plan table
\* holds 0 or 12 rows, and a run of seed_defaults that completes afterwards
\* leaves one profile, 12 plan rows and the four default goals.
C10_CrashSafeSeeding ==
    /\ Len(db.plan_workouts) \in {0, 12}
    /\ pc = Idle /\ cmd[1] = "init" /\ exit = 0 => FullySeeded(db)

\* the process died after six of the twelve plan rows: nothing was persisted
C10_Witness ==
    /\ pc = Idle
    /\ exit # 0
    /\ out = [at |-> "plan_rows", name |-> None, j |-> 7]
    /\ db.plan_workouts = <<>>
    /\ db.profile = <<>>

----------------------------------------------------------------------------
(* Logging: every command again, with room for several rows in each log.  *)
(* The invocations follow one another within one tick of the clock: the    *)
(* timestamps play no part in what a command does to the rows it finds.    *)

\* no --date, a date given, and a date strptime rejects
LogDates == {None, Some(<<2024, 1, 1>>), Some(<<2024, 2, 30>>)}
LogCalories == {None, Some(500)}

log_workout(dateArg) ==
    run_add_workout(dateArg, "run", Some(30), None, MaxLogged)

log_meal(dateArg, calories) ==
    run_add_meal(dateArg, "lunch", calories, Some(10), Some(20), Some(5), MaxLogged)

NextLog ==
    \/ cmd_init(None)
    \/ cmd_set_goal("k", 10, None)
    \/ \E dateArg \in LogDates : log_workout(dateArg)
    \/ \E dateArg \in DateArgs, calories \in LogCalories : log_meal(dateArg, calories)
    \/ cmd_today
    \/ cmd_week
    \/ cmd_plan
    \/ \E table \in {"workouts", "meals", "goals", "profile"} : cmd_export(table)

SpecLog == Init /\ [][NextLog]_vars

\* the rows of old are the first rows of new, unchanged
Extends(new, old) ==
    /\ Len(new) >= Len(old)
    /\ \A j \in 1..Len(old) : new[j] = old[j]

\* C11: add_workout (add_meal) adds exactly one row to workouts (meals) and
\* leaves every row stored before, the other log, and the profile, goals and
\* plan tables as they were; no other operation changes workouts or meals, so
\* the logged rows only grow.
C11_LogsAppendOnly ==
    [][/\ Extends(db'.workouts, db.workouts)
       /\ Extends(db'.meals, db.meals)
       /\ \A dateArg \in LogDates :
             date_ok(dateArg) /\ log_workout(dateArg) =>
                 /\ Len(db'.workouts) = Len(db.workouts) + 1
                 /\ db' = [db EXCEPT !.workouts = db'.workouts]
       /\ \A dateArg \in DateArgs, calories \in LogCalories :
             date_ok(dateArg) /\ log_meal(dateArg, calories) =>
                 /\ Len(db'.meals) = Len(db.meals) + 1
                 /\ db' = [db EXCEPT !.meals = db'.meals]
       /\ db'.workouts # db.workouts => cmd'[1] = "add-workout" /\ exit' = 0
       /\ db'.meals # db.meals => cmd'[1] = "add-meal" /\ exit' = 0]_vars

\* a second workout was logged into a seeded store that held a workout, a meal
\* and a user goal
C11_Witness ==
    /\ cmd = <<"add-workout">>
    /\ exit = 0
    /\ Len(db.workouts) = 2
    /\ Len(db.meals) >= 1
    /\ Len(db.profile) = 1
    /\ HasGoal(db.goals, "k")

====
